---------------------------- MODULE Spec2Model ----------------------------
(***************************************************************************)
(* Model of sysmon_serial.py: the fixed-width number formatter             *)
(* format_float_as_string, the five frame builders and the transmission    *)
(* loop of main().                                                         *)
(*                                                                         *)
(* Floats.  Every float the model handles is a multiple of 1/Den with      *)
(* Den = 2^FracBits, or a power of ten up to 10^22, and is held as a sign, *)
(* the decimal digits of its whole part and the numerator of its fraction  *)
(* over Den.  Such values are exact IEEE doubles, and int(), abs(), the    *)
(* subtraction and the comparisons of format_float_as_string are exact on  *)
(* them.  round(x, d) is Python's correctly rounded round-half-to-even.    *)
(* The two inexact double operations are modelled by what they give:       *)
(* int(rounded * 10^d) by int_of_scaled and int(max_integer_size / 10) by  *)
(* min_integer_size.                                                       *)
(* Python ints of any size (max_integer_size, min_integer_size, the        *)
(* integer part) are held as a sign and decimal digits.                    *)
(* Text is TLC strings: Len, \o and SubSeq act on them as on Python str.   *)
(***************************************************************************)
EXTENDS Integers, Sequences, FiniteSets, TLC

VARIABLES
    \* ---- format_float_as_string called on its own
    number,             \* argument 'number': [neg, whole, frac], see float_of
    integer_digits,     \* argument 'integer_digits'
    decimal_digits,     \* argument 'decimal_digits'
    float_as_string,    \* the returned string ("" before the call)
    called,             \* whether the call has returned
    \* ---- main()
    pc,                 \* position of main(): start, warmup, call, write, sleep, crashed
    idx,                \* position of the for loop in sysinfo_functions (1-based)
    readings,           \* what the metrics provider returned to the builder last invoked
    display_output,     \* the tuple the builder last invoked returned
    arduino,            \* the serial link: payload last written, write calls, writes done
    clock,              \* time.sleep bookkeeping: seconds slept, warm-up and dwell sleeps
    invoked,            \* the builders invoked so far, in order
    raised              \* the exception that ended main(), "none" while it runs

fmtvars == <<number, integer_digits, decimal_digits, float_as_string, called>>
mainvars == <<pc, idx, readings, display_output, arduino, clock, invoked, raised>>
vars == <<number, integer_digits, decimal_digits, float_as_string, called,
          pc, idx, readings, display_output, arduino, clock, invoked, raised>>

---------------------------------------------------------------------------
(* Bounds of the model *)

\* fractional bits of the modelled floats
FracBits == 7
\* integer_digits ranges over 1..MaxIntegerDigits
MaxIntegerDigits == 2
\* decimal_digits ranges over 0..MaxDecimalDigits (int_of_scaled is exact up to 3)
MaxDecimalDigits == 2
\* 'number' ranges over -MaxNegWhole .. MaxWhole in steps of 1/Den
MaxWhole == 101
MaxNegWhole == 11
\* wide fields: integer_digits also ranges over MinWideDigits .. MaxWideDigits,
\* with 'number' a power of ten of about as many digits
MinWideDigits == 15
MaxWideDigits == 17
\* main() is followed for this many passes over sysinfo_functions
MaxCycles == 2

---------------------------------------------------------------------------
(* Program constants *)

serial_init_interval_seconds == 6
serial_update_interval_seconds == 3

---------------------------------------------------------------------------
(* Python built-ins used by the program *)

RECURSIVE pow(_, _)
pow(base, exp) == IF exp = 0 THEN 1 ELSE base * pow(base, exp - 1)

\* denominator of every modelled float
Den == pow(2, FracBits)

abs(x) == IF x < 0 THEN 0 - x ELSE x

DigitChars == <<"0", "1", "2", "3", "4", "5", "6", "7", "8", "9">>

\* str(n) of an int
RECURSIVE str(_)
str(n) ==
    IF n < 0 THEN "-" \o str(0 - n)
    ELSE IF n < 10 THEN DigitChars[n + 1]
    ELSE str(n \div 10) \o DigitChars[(n % 10) + 1]

\* The float n / Den: its sign, the decimal digits of the whole part of its
\* magnitude, and the numerator of the fraction of its magnitude over Den.
float_of(n) ==
    [neg |-> n < 0, whole |-> str(abs(n) \div Den), frac |-> abs(n) % Den]

RECURSIVE zeros(_)
zeros(k) == IF k = 0 THEN "" ELSE "0" \o zeros(k - 1)

RECURSIVE nines(_)
nines(k) == IF k = 0 THEN "" ELSE "9" \o nines(k - 1)

\* The float 10^k or -(10^k), exact in a double for k <= 22.
power_of_ten(negative, k) == [neg |-> negative, whole |-> "1" \o zeros(k), frac |-> 0]

\* int(x) of a float: truncation toward zero, a Python int [neg, mag]
int(x) == [neg |-> x.neg /\ x.whole # "0", mag |-> x.whole]

\* str(i) of a Python int [neg, mag]
str_of_int(i) == IF i.neg THEN "-" \o i.mag ELSE i.mag

\* a < b for two digit strings without leading zeros
mag_less(a, b) ==
    \/ Len(a) < Len(b)
    \/ /\ Len(a) = Len(b)
       /\ \E i \in 1..Len(a) :
              /\ SubSeq(a, 1, i - 1) = SubSeq(b, 1, i - 1)
              /\ \E da \in 1..10, db \in 1..10 :
                     /\ DigitChars[da] = SubSeq(a, i, i)
                     /\ DigitChars[db] = SubSeq(b, i, i)
                     /\ da < db

\* x < i for a float x and a Python int i (Python compares them exactly)
float_lt_int(x, i) ==
    LET x_negative == x.neg /\ (x.whole # "0" \/ x.frac > 0)
    IN  IF x_negative /\ ~i.neg THEN TRUE
        ELSE IF ~x_negative /\ i.neg THEN FALSE
        ELSE IF ~x_negative THEN mag_less(x.whole, i.mag)
        ELSE mag_less(i.mag, x.whole) \/ (x.whole = i.mag /\ x.frac > 0)

\* x > i for a float x and a Python int i
float_gt_int(x, i) ==
    LET x_negative == x.neg /\ (x.whole # "0" \/ x.frac > 0)
    IN  IF x_negative /\ ~i.neg THEN FALSE
        ELSE IF ~x_negative /\ i.neg THEN TRUE
        ELSE IF ~x_negative
             THEN mag_less(i.mag, x.whole) \/ (x.whole = i.mag /\ x.frac > 0)
        ELSE mag_less(x.whole, i.mag)

\* s.rjust(width, ' ')
RECURSIVE rjust(_, _)
rjust(s, width) == IF Len(s) >= width THEN s ELSE rjust(" " \o s, width)

\* round(r/Den, ndigits) for 0 <= r < Den, as the numerator m of m / 10^ndigits:
\* correctly rounded, a tie going to the even m
round(r, ndigits) ==
    LET scaled == r * pow(10, ndigits)
        q == scaled \div Den
        rem == scaled % Den
    IN  IF 2 * rem > Den THEN q + 1
        ELSE IF 2 * rem = Den THEN q + (q % 2)
        ELSE q

\* int(double(m / 10^ndigits) * 10^ndigits): the double product falls just below m
\* for 0.29, 0.57 and 0.58 and is exact for every other m / 10^ndigits, ndigits <= 3
int_of_scaled(m, ndigits) ==
    IF ndigits = 2 /\ m \in {29, 57, 58} THEN m - 1 ELSE m

---------------------------------------------------------------------------
(* format_float_as_string *)

\* pow(10, integer_digits) - 1
max_integer_size(int_digits) == [neg |-> FALSE, mag |-> nines(int_digits)]

\* Variant, not the program: no character kept for the '-' sign.
min_integer_size_no_sign(int_digits) == [neg |-> TRUE, mag |-> nines(int_digits)]

\* 0 - int(max_integer_size / 10).  The division is a float division: up to
\* 16 digits int() of its result is the integer quotient 10^(d-1) - 1; from 17
\* digits (and up to 23) the quotient 10^(d-1) - 0.1 lies between doubles
\* at least 2 apart and the division gives 10^(d-1).
min_integer_size(int_digits) ==
    IF int_digits = 1 THEN [neg |-> FALSE, mag |-> "0"]
    ELSE IF int_digits <= 16
         THEN [neg |-> TRUE, mag |-> nines(int_digits - 1)]
    ELSE [neg |-> TRUE, mag |-> "1" \o zeros(int_digits - 1)]

\* the integer part after the two clamping ifs
clamped_integer_part(num, int_digits) ==
    LET low == IF float_lt_int(num, min_integer_size(int_digits))
               THEN min_integer_size(int_digits) ELSE int(num)
    IN  IF float_gt_int(num, max_integer_size(int_digits))
        THEN max_integer_size(int_digits) ELSE low

\* abs(number) - abs(integer_part), numerator over Den
fraction_of(num) == num.frac

format_float_as_string(num, int_digits, dec_digits) ==
    LET integer_part == clamped_integer_part(num, int_digits)
        decimal_part == int_of_scaled(round(fraction_of(num), dec_digits), dec_digits)
    IN  rjust(str_of_int(integer_part), int_digits) \o "." \o str(decimal_part)

---------------------------------------------------------------------------
(* The frame builders.  Each takes what the metrics provider returned and  *)
(* gives the tuple of two rows.                                            *)

\* psutil.getloadavg(): load_all is a tuple of three floats
get_load_avg(load_all) ==
    << "    Load AVG    ",
       format_float_as_string(load_all[1], 2, 2) \o " " \o
       format_float_as_string(load_all[2], 2, 2) \o " " \o
       format_float_as_string(load_all[3], 2, 1) >>

\* psutil.cpu_freq()[0] and psutil.cpu_percent(interval=None)
get_cpu_usage(cpu_freq, cpu_percent) ==
    << "   CPU  Usage   ",
       format_float_as_string(cpu_freq, 4, 1) \o "MHz " \o
       format_float_as_string(cpu_percent, 3, 1) \o "%" >>

\* mem_used_bytes / pow(2, 30).  The used memory is given
\* in MiB (a byte count does not fit TLC's integers); a multiple of 1024 / Den MiB
\* converts exactly.
mem_used_gib(mem_used_mib) == float_of((mem_used_mib * Den) \div pow(2, 10))

\* psutil.virtual_memory().used (in MiB) and .percent
get_memory_usage(mem_used_mib, mem_percent) ==
    << "   MEM  Usage   ",
       format_float_as_string(mem_used_gib(mem_used_mib), 2, 3) \o "GiB " \o
       format_float_as_string(mem_percent, 3, 1) \o "%" >>

\* time_since_boot.days and time_since_boot.seconds of now - time_of_boot
get_uptime(days_since_boot, seconds_since_boot) ==
    LET hours_since_boot == seconds_since_boot \div 3600
        minutes_since_boot == (seconds_since_boot \div 60) - hours_since_boot * 60
    IN  << "     Uptime     ",
           rjust(str(days_since_boot), 4) \o " d " \o
           rjust(str(hours_since_boot), 2) \o " h " \o
           rjust(str(minutes_since_boot), 2) \o " m" >>

\* psutil.sensors_temperatures() is a dict from sensor name to the list of that
\* sensor's 'current' readings, here a function on the names it holds.
\* dict_get(d, key) is d.get(key): None for a missing key.
dict_get(d, key) ==
    IF key \in DOMAIN d THEN [is_none |-> FALSE, value |-> d[key]]
    ELSE [is_none |-> TRUE]

\* entry[0].current: None is not subscriptable, an empty list has no item 0
subscript_0(entry) ==
    IF entry.is_none THEN [raises |-> "TypeError"]
    ELSE IF Len(entry.value) = 0 THEN [raises |-> "IndexError"]
    ELSE [raises |-> "none", current |-> entry.value[1]]

nan_frame == << "CPU  Temp " \o " NaN " \o "C", "MoBo Temp " \o " NaN " \o "C" >>

\* Variant, not the program: the placeholder substituted per sensor instead of
\* for the whole frame.
get_cpu_mobo_temperature_per_sensor(sensors) ==
    LET cpu == subscript_0(dict_get(sensors, "k10temp"))
        mobo == subscript_0(dict_get(sensors, "thinkpad"))
        field(r) == IF r.raises = "TypeError" THEN " NaN "
                    ELSE format_float_as_string(r.current, 3, 1)
    IN  IF cpu.raises = "IndexError" \/ mobo.raises = "IndexError"
        THEN [raises |-> "IndexError"]
        ELSE [raises |-> "none",
              output |-> << "CPU  Temp " \o field(cpu) \o "C",
                            "MoBo Temp " \o field(mobo) \o "C" >>]

\* the try block evaluates the k10temp lookup, then the thinkpad lookup, then
\* formats both; 'except TypeError' replaces the whole frame, and any other
\* exception leaves the function
get_cpu_mobo_temperature(sensors) ==
    LET cpu == subscript_0(dict_get(sensors, "k10temp"))
        mobo == subscript_0(dict_get(sensors, "thinkpad"))
    IN  IF cpu.raises = "TypeError" THEN [raises |-> "none", output |-> nan_frame]
        ELSE IF cpu.raises = "IndexError" THEN [raises |-> "IndexError"]
        ELSE IF mobo.raises = "TypeError" THEN [raises |-> "none", output |-> nan_frame]
        ELSE IF mobo.raises = "IndexError" THEN [raises |-> "IndexError"]
        ELSE [raises |-> "none",
              output |-> << "CPU  Temp " \o format_float_as_string(cpu.current, 3, 1) \o "C",
                            "MoBo Temp " \o format_float_as_string(mobo.current, 3, 1) \o "C" >>]

---------------------------------------------------------------------------
(* bytes(text, 'utf-8'): every character the program sends is ASCII, one    *)
(* byte each.                                                              *)

IndexIn(chars, c) == CHOOSE i \in 1..Len(chars) : SubSeq(chars, i, i) = c

HasChar(chars, c) == \E i \in 1..Len(chars) : SubSeq(chars, i, i) = c

ord(c) ==
    IF HasChar("0123456789", c) THEN 47 + IndexIn("0123456789", c)
    ELSE IF HasChar("ABCDEFGHIJKLMNOPQRSTUVWXYZ", c)
         THEN 64 + IndexIn("ABCDEFGHIJKLMNOPQRSTUVWXYZ", c)
    ELSE IF HasChar("abcdefghijklmnopqrstuvwxyz", c)
         THEN 96 + IndexIn("abcdefghijklmnopqrstuvwxyz", c)
    ELSE IF c = " " THEN 32
    ELSE IF c = "%" THEN 37
    ELSE IF c = "-" THEN 45
    ELSE 46  \* "."

bytes(text) == [i \in 1..Len(text) |-> ord(SubSeq(text, i, i))]

---------------------------------------------------------------------------
(* The metrics provider: the values a builder may be handed.               *)

LoadSamples == {float_of(n) : n \in {0, Den + Den \div 4, Den + Den \div 16, 3 * Den - 1}}
FreqSamples == {float_of(n) : n \in {800 * Den, 2400 * Den + Den \div 2, 12000 * Den}}
PercentSamples == {float_of(n) : n \in {0, 12 * Den + Den \div 2, 100 * Den - 1, 100 * Den}}
MemUsedMiBSamples == {0, 4096 + 64, 4096 + 128, 20480}
DaysSamples == {0, 3, 400}
SecondsSamples == {0, 59, 3661, 86399}
TempSamples == {float_of(n) : n \in {45 * Den, 45 * Den + Den \div 2, 62 * Den - 1}}
SensorLists == {<< >>} \cup {<<t>> : t \in TempSamples} \cup {<<float_of(45 * Den), float_of(50 * Den)>>}
SensorDicts == UNION {[D -> SensorLists] : D \in SUBSET {"k10temp", "thinkpad"}}

---------------------------------------------------------------------------
(* main() *)

sysinfo_functions ==
    << "get_cpu_usage", "get_load_avg", "get_memory_usage", "get_uptime",
       "get_cpu_mobo_temperature" >>

\* Variant, not the program: the loop stays on the same entry.
next_index_stuck(i) == i

\* the for loop inside 'while True': the entry after the last is the first
next_index(i) == IF i = Len(sysinfo_functions) THEN 1 ELSE i + 1

MainInit ==
    /\ pc = "start"
    /\ idx = 1
    /\ readings = [none |-> TRUE]
    /\ display_output = <<"", "">>
    /\ arduino = [is_open |-> FALSE, write_calls |-> 0, writes_done |-> 0,
                  last_payload |-> << >>]
    /\ clock = [slept |-> 0, warmups |-> 0, dwells |-> 0]
    /\ invoked = << >>
    /\ raised = "none"

\* arduino = serial.Serial(port=file_descriptor, baudrate=baud_rate)
OpenSerial ==
    /\ pc = "start"
    /\ \/ /\ arduino' = [arduino EXCEPT !.is_open = TRUE]
          /\ pc' = "warmup"
          /\ UNCHANGED raised
       \/ /\ pc' = "crashed"
          /\ raised' = "SerialException"
          /\ UNCHANGED arduino
    /\ UNCHANGED <<idx, readings, display_output, clock, invoked>>
    /\ UNCHANGED fmtvars

\* time.sleep(serial_init_interval_seconds), then the loops are entered
WarmUp ==
    /\ pc = "warmup"
    /\ clock' = [clock EXCEPT !.slept = @ + serial_init_interval_seconds,
                              !.warmups = @ + 1]
    /\ idx' = 1
    /\ pc' = "call"
    /\ UNCHANGED <<readings, display_output, arduino, invoked, raised>>
    /\ UNCHANGED fmtvars

\* display_output = function(), for the function at idx returning normally
Returned(name, given, output) ==
    /\ pc = "call"
    /\ sysinfo_functions[idx] = name
    /\ Len(invoked) < MaxCycles * Len(sysinfo_functions)
    /\ readings' = given
    /\ display_output' = output
    /\ invoked' = Append(invoked, name)
    /\ pc' = "write"
    /\ UNCHANGED <<idx, arduino, clock, raised>>
    /\ UNCHANGED fmtvars

\* function() raising: the exception leaves main()
Raised(name, given, exception) ==
    /\ pc = "call"
    /\ sysinfo_functions[idx] = name
    /\ Len(invoked) < MaxCycles * Len(sysinfo_functions)
    /\ readings' = given
    /\ invoked' = Append(invoked, name)
    /\ pc' = "crashed"
    /\ raised' = exception
    /\ UNCHANGED <<idx, display_output, arduino, clock>>
    /\ UNCHANGED fmtvars

Call_get_cpu_usage ==
    \E f \in FreqSamples, p \in PercentSamples :
        Returned("get_cpu_usage", [cpu_freq |-> f, cpu_percent |-> p],
                 get_cpu_usage(f, p))

Call_get_load_avg ==
    \E a \in LoadSamples, b \in LoadSamples, c \in LoadSamples :
        Returned("get_load_avg", [load_all |-> <<a, b, c>>],
                 get_load_avg(<<a, b, c>>))

Call_get_memory_usage ==
    \E u \in MemUsedMiBSamples, p \in PercentSamples :
        Returned("get_memory_usage", [mem_used_mib |-> u, mem_percent |-> p],
                 get_memory_usage(u, p))

Call_get_uptime ==
    \E d \in DaysSamples, sec \in SecondsSamples :
        Returned("get_uptime", [days |-> d, seconds |-> sec], get_uptime(d, sec))

Call_get_cpu_mobo_temperature ==
    \E sensors \in SensorDicts :
        LET result == get_cpu_mobo_temperature(sensors)
        IN  \/ /\ result.raises = "none"
               /\ Returned("get_cpu_mobo_temperature", [sensors |-> sensors],
                           result.output)
            \/ /\ result.raises # "none"
               /\ Raised("get_cpu_mobo_temperature", [sensors |-> sensors],
                         result.raises)

\* Variant, not the program: the exception of a failed write is swallowed and
\* the loop goes on to the sleep.
WriteSwallowingFailure ==
    /\ pc = "write"
    /\ \/ arduino' = [arduino EXCEPT
              !.write_calls = @ + 1,
              !.writes_done = @ + 1,
              !.last_payload = bytes(display_output[1] \o display_output[2])]
       \/ arduino' = [arduino EXCEPT !.write_calls = @ + 1]
    /\ pc' = "sleep"
    /\ UNCHANGED <<idx, readings, display_output, clock, invoked, raised>>
    /\ UNCHANGED fmtvars

\* arduino.write(bytes(display_output[0] + display_output[1], 'utf-8')): it
\* returns, or raises and the exception leaves main()
Write ==
    /\ pc = "write"
    /\ \/ /\ arduino' = [arduino EXCEPT
                 !.write_calls = @ + 1,
                 !.writes_done = @ + 1,
                 !.last_payload = bytes(display_output[1] \o display_output[2])]
          /\ pc' = "sleep"
          /\ UNCHANGED raised
       \/ /\ arduino' = [arduino EXCEPT !.write_calls = @ + 1]
          /\ pc' = "crashed"
          /\ raised' = "SerialException"
    /\ UNCHANGED <<idx, readings, display_output, clock, invoked>>
    /\ UNCHANGED fmtvars

\* Variant, not the program: the sleep moved out of the for loop, one sleep per
\* pass over the list.
SleepOncePerPass ==
    /\ pc = "sleep"
    /\ clock' = IF idx = Len(sysinfo_functions)
                THEN [clock EXCEPT !.slept = @ + serial_update_interval_seconds,
                                   !.dwells = @ + 1]
                ELSE clock
    /\ idx' = next_index(idx)
    /\ pc' = "call"
    /\ UNCHANGED <<readings, display_output, arduino, invoked, raised>>
    /\ UNCHANGED fmtvars

\* time.sleep(serial_update_interval_seconds), then the next entry
Sleep ==
    /\ pc = "sleep"
    /\ clock' = [clock EXCEPT !.slept = @ + serial_update_interval_seconds,
                              !.dwells = @ + 1]
    /\ idx' = next_index(idx)
    /\ pc' = "call"
    /\ UNCHANGED <<readings, display_output, arduino, invoked, raised>>
    /\ UNCHANGED fmtvars

\* format_float_as_string has not been called on its own
FormatIdle ==
    /\ number = float_of(0)
    /\ integer_digits = 1
    /\ decimal_digits = 0
    /\ float_as_string = ""
    /\ called = FALSE

Init == MainInit /\ FormatIdle

Next ==
    \/ OpenSerial
    \/ WarmUp
    \/ Call_get_cpu_usage
    \/ Call_get_load_avg
    \/ Call_get_memory_usage
    \/ Call_get_uptime
    \/ Call_get_cpu_mobo_temperature
    \/ Write
    \/ Sleep

Spec == Init /\ [][Next]_vars

---------------------------------------------------------------------------
(* format_float_as_string called on its own, on every input of the bounds  *)

\* every multiple of 1/Den from -MaxNegWhole to MaxWhole
Numbers == {float_of(n) : n \in (0 - MaxNegWhole * Den) .. (MaxWhole * Den)}

\* the powers of ten around the wide field widths, of either sign
WideNumbers ==
    {power_of_ten(negative, k) :
        negative \in BOOLEAN, k \in (MinWideDigits - 1) .. (MaxWideDigits + 1)}

FormatInit ==
    /\ MainInit
    /\ \/ /\ number \in Numbers
          /\ integer_digits \in 1..MaxIntegerDigits
       \/ /\ number \in WideNumbers
          /\ integer_digits \in MinWideDigits..MaxWideDigits
    /\ decimal_digits \in 0..MaxDecimalDigits
    /\ float_as_string = ""
    /\ called = FALSE

Format ==
    /\ ~called
    /\ float_as_string' = format_float_as_string(number, integer_digits, decimal_digits)
    /\ called' = TRUE
    /\ UNCHANGED <<number, integer_digits, decimal_digits>>
    /\ UNCHANGED mainvars

FormatNext == Format

FormatSpec == FormatInit /\ [][FormatNext]_vars

---------------------------------------------------------------------------
(* Reading a formatted field back: the text before and after its decimal   *)
(* point, and the numbers they denote.                                     *)

DotAt(s) ==
    CHOOSE i \in 1..Len(s) :
        /\ SubSeq(s, i, i) = "."
        /\ \A j \in 1..(i - 1) : SubSeq(s, j, j) # "."

IntegerText(s) == SubSeq(s, 1, DotAt(s) - 1)

DecimalText(s) == SubSeq(s, DotAt(s) + 1, Len(s))

IsDigits(s) == Len(s) > 0 /\ \A i \in 1..Len(s) : HasChar("0123456789", SubSeq(s, i, i))

RECURSIVE NatOf(_)
NatOf(s) ==
    IF Len(s) = 0 THEN 0
    ELSE NatOf(SubSeq(s, 1, Len(s) - 1)) * 10
         + (IndexIn("0123456789", SubSeq(s, Len(s), Len(s))) - 1)

RECURSIVE Stripped(_)
Stripped(s) ==
    IF Len(s) > 0 /\ SubSeq(s, 1, 1) = " " THEN Stripped(SubSeq(s, 2, Len(s))) ELSE s

\* a run of spaces followed by an optional '-' and digits
IsPaddedInt(s) ==
    LET t == Stripped(s)
    IN  IF Len(t) > 0 /\ SubSeq(t, 1, 1) = "-"
        THEN IsDigits(SubSeq(t, 2, Len(t)))
        ELSE IsDigits(t)

IntOf(s) ==
    LET t == Stripped(s)
    IN  IF SubSeq(t, 1, 1) = "-" THEN 0 - NatOf(SubSeq(t, 2, Len(t))) ELSE NatOf(t)

Contains(s, word) ==
    \E i \in 1..(Len(s) - Len(word) + 1) : SubSeq(s, i, i + Len(word) - 1) = word

\* the largest and smallest integer an integer part of the given width shows:
\* max = 10^w - 1 and min = -floor(max / 10), as numbers and as text
WidthMax(w) == pow(10, w) - 1
WidthMaxText(w) == nines(w)
WidthMinText(w) == IF w = 1 THEN "0" ELSE "-" \o nines(w - 1)

\* number > max and number < min for a field of width w: max is w nines and
\* -min is w - 1 nines, so the count of digits decides
AboveMax(x, w) ==
    ~x.neg /\ (Len(x.whole) > w \/ (x.whole = nines(w) /\ x.frac > 0))
BelowMin(x, w) ==
    /\ x.neg
    /\ IF w = 1 THEN x.whole # "0" \/ x.frac > 0
       ELSE Len(x.whole) > w - 1 \/ (x.whole = nines(w - 1) /\ x.frac > 0)

\* trunc(number) as text and as a number, and |number| - |trunc(number)|
TruncText(x) == IF x.neg /\ x.whole # "0" THEN "-" \o x.whole ELSE x.whole
Trunc(x) == IF x.neg THEN 0 - NatOf(x.whole) ELSE NatOf(x.whole)
Remainder(x) == x.frac

\* Remainder(n) / Den rounded to d places, as a count of 10^-d (a tie to even)
RoundedRemainder(n, d) ==
    LET scaled == Remainder(n) * pow(10, d)
        q == scaled \div Den
    IN  IF 2 * (scaled % Den) > Den THEN q + 1
        ELSE IF 2 * (scaled % Den) < Den THEN q
        ELSE IF q % 2 = 0 THEN q ELSE q + 1

---------------------------------------------------------------------------
(* Claims about format_float_as_string, checked under FormatSpec           *)

\* C1: the returned string is exactly integer_digits + 1 + decimal_digits
\* characters long (stated here for decimal_digits >= 1, where a decimal text
\* is expected at all).
C1_ResultLengthIsExact ==
    (called /\ decimal_digits >= 1) =>
        Len(float_as_string) = integer_digits + 1 + decimal_digits

\* the integer text of the result is integer_digits characters: the text of
\* max when number > max, of min when number < min, otherwise trunc(number)
\* right-justified with leading spaces
IntegerTextAsClaimed ==
    LET t == IntegerText(float_as_string)
        expected == IF AboveMax(number, integer_digits)
                    THEN WidthMaxText(integer_digits)
                    ELSE IF BelowMin(number, integer_digits)
                    THEN WidthMinText(integer_digits)
                    ELSE TruncText(number)
    IN  /\ Len(t) = integer_digits
        /\ IsPaddedInt(t)
        /\ Stripped(t) = expected

C9_DecimalTextIsPaddedRemainder ==
    (called /\ decimal_digits >= 1) =>
        LET t == DecimalText(float_as_string)
            m == RoundedRemainder(number, decimal_digits)
        IN  /\ Len(t) = decimal_digits
            /\ IsDigits(t)
            /\ (m < pow(10, decimal_digits) => NatOf(t) = m)

\* C10: when rounding the remainder carries, the integer part is incremented and
\* clamped again, and the decimal text has decimal_digits characters and never
\* the value 10^decimal_digits.
C10_CarryIncrementsIntegerPart ==
    (/\ called
     /\ decimal_digits >= 1
     /\ RoundedRemainder(number, decimal_digits) = pow(10, decimal_digits)) =>
        LET t == DecimalText(float_as_string)
            carried == Trunc(number) + 1
        IN  /\ Len(t) = decimal_digits
            /\ NatOf(t) # pow(10, decimal_digits)
            /\ (~number.neg =>
                   IntOf(IntegerText(float_as_string)) =
                       IF carried > WidthMax(integer_digits)
                       THEN WidthMax(integer_digits) ELSE carried)

---------------------------------------------------------------------------
(* Claims about the builders and main(), checked under Spec                *)

N == Len(sysinfo_functions)

LastInvoked == IF invoked = << >> THEN "none" ELSE invoked[Len(invoked)]

\* the frame the named builder gives for the readings it was handed
FrameFor(name, given) ==
    CASE name = "get_cpu_usage" -> get_cpu_usage(given.cpu_freq, given.cpu_percent)
      [] name = "get_load_avg" -> get_load_avg(given.load_all)
      [] name = "get_memory_usage" -> get_memory_usage(given.mem_used_mib, given.mem_percent)
      [] name = "get_uptime" -> get_uptime(given.days, given.seconds)
      [] name = "get_cpu_mobo_temperature" -> get_cpu_mobo_temperature(given.sensors).output

\* C2: both rows of every frame a builder returns are 16 characters long and
\* every payload written to the serial link is 32 bytes.
C2_RowsAre16PayloadIs32 ==
    /\ (pc \in {"write", "sleep"} =>
           Len(display_output[1]) = 16 /\ Len(display_output[2]) = 16)
    /\ (arduino.writes_done > 0 => Len(arduino.last_payload) = 32)

\* C3: the k-th builder invoked is entry ((k-1) mod N) of the configured order,
\* and the payload of each write is the frame of the invocation just before it.
C3_BuildersRunInConfiguredOrder ==
    /\ \A k \in 1..Len(invoked) : invoked[k] = sysinfo_functions[((k - 1) % N) + 1]
    /\ (pc \in {"write", "sleep"} =>
           display_output = FrameFor(LastInvoked, readings))
    /\ (pc = "sleep" =>
           /\ arduino.writes_done = Len(invoked)
           /\ arduino.last_payload = bytes(display_output[1] \o display_output[2]))

\* two full passes over the list have been invoked and written
C3_Witness ==
    /\ pc = "call"
    /\ raised = "none"
    /\ Len(invoked) = 2 * N
    /\ arduino.writes_done = 2 * N

\* C4: the warm-up sleep happens exactly once, after the link is opened and
\* before the first builder or write; exactly one dwell sleep follows each write
\* before the next builder; after M passes over the N entries the time slept is
\* warm_up + M * N * dwell.
C4_WarmUpOnceDwellAfterEachWrite ==
    /\ clock.warmups <= 1
    /\ (pc \in {"start", "warmup"} =>
           /\ clock.warmups = 0
           /\ clock.slept = 0
           /\ arduino.write_calls = 0
           /\ invoked = << >>)
    /\ (pc \in {"call", "write", "sleep"} =>
           /\ arduino.is_open
           /\ clock.warmups = 1
           /\ clock.slept = serial_init_interval_seconds
                            + clock.dwells * serial_update_interval_seconds)
    /\ (pc = "call" =>
           /\ clock.dwells = arduino.writes_done
           /\ Len(invoked) = arduino.writes_done
           /\ idx = (Len(invoked) % N) + 1)
    /\ (pc = "write" =>
           /\ clock.dwells = arduino.writes_done
           /\ Len(invoked) = arduino.writes_done + 1)
    /\ (pc = "sleep" => clock.dwells = arduino.writes_done - 1)
    /\ (pc = "call" /\ idx = 1 =>
           clock.slept = serial_init_interval_seconds
                         + Len(invoked) * serial_update_interval_seconds)

\* after two full passes the loop is back at the first entry, 6 + 2 * 5 * 3 s slept
C4_Witness ==
    /\ pc = "call"
    /\ idx = 1
    /\ Len(invoked) = 2 * N
    /\ clock.slept = 36

\* C5: once a write has failed the scheduler has halted: that write is not made
\* again, no builder is invoked after it, no dwell follows it.
C5_WriteFailureHalts ==
    arduino.write_calls > arduino.writes_done =>
        /\ pc = "crashed"
        /\ raised = "SerialException"
        /\ arduino.write_calls = arduino.writes_done + 1
        /\ Len(invoked) = arduino.write_calls
        /\ clock.dwells = arduino.writes_done

\* a write failed in the second pass, after earlier writes succeeded
C5_Witness ==
    /\ arduino.write_calls > arduino.writes_done
    /\ arduino.writes_done > N
    /\ pc = "crashed"

\* the lookup of a named sensor fails: the name is missing or has no readings
LookupFails(sensors, name) == name \notin DOMAIN sensors \/ Len(sensors[name]) = 0

HasReading(sensors, name) == name \in DOMAIN sensors /\ Len(sensors[name]) > 0

\* C6: whenever a named sensor is missing or has no readings the temperature
\* builder raises nothing and returns a 16 x 2 frame holding 'NaN'.
C6_SensorLookupFailureNeverRaises ==
    (/\ LastInvoked = "get_cpu_mobo_temperature"
     /\ \/ LookupFails(readings.sensors, "k10temp")
        \/ LookupFails(readings.sensors, "thinkpad")) =>
        /\ raised # "IndexError"
        /\ Len(display_output[1]) = 16
        /\ Len(display_output[2]) = 16
        /\ Contains(display_output[1], "NaN") \/ Contains(display_output[2], "NaN")

\* the temperature builder has returned with exactly one named sensor missing
\* and the other one holding a reading
OneSensorMissing ==
    /\ LastInvoked = "get_cpu_mobo_temperature"
    /\ pc \in {"write", "sleep"}
    /\ \/ /\ "k10temp" \notin DOMAIN readings.sensors
          /\ HasReading(readings.sensors, "thinkpad")
       \/ /\ "thinkpad" \notin DOMAIN readings.sensors
          /\ HasReading(readings.sensors, "k10temp")

\* C7 as claimed: with exactly one sensor missing only that sensor's row holds
\* the placeholder, the other row holds the formatted reading.
C7_PlaceholderOnlyOnMissingRow ==
    OneSensorMissing =>
        LET sensors == readings.sensors
        IN  /\ HasReading(sensors, "thinkpad") =>
                /\ Contains(display_output[1], "NaN")
                /\ display_output[2] =
                       "MoBo Temp " \o format_float_as_string(sensors["thinkpad"][1], 3, 1) \o "C"
            /\ HasReading(sensors, "k10temp") =>
                /\ Contains(display_output[2], "NaN")
                /\ display_output[1] =
                       "CPU  Temp " \o format_float_as_string(sensors["k10temp"][1], 3, 1) \o "C"

\* C7 amended: with exactly one sensor missing and the other holding a reading,
\* both rows hold the placeholder and the reading is not shown.
C7_PlaceholderOnBothRows ==
    OneSensorMissing =>
        display_output = << "CPU  Temp  NaN C", "MoBo Temp  NaN C" >>

\* the thinkpad sensor is missing, k10temp reads 45.5, and the frame was returned
C7_Witness ==
    /\ OneSensorMissing
    /\ HasReading(readings.sensors, "k10temp")
    /\ readings.sensors["k10temp"][1] = float_of(45 * Den + Den \div 2)
    /\ pc = "write"

===========================================================================
